---- MODULE Spec2Model ----
(***************************************************************************)
(* Model of streamlit_app.py: the CIM -> LBO template pipeline.            *)
(*                                                                         *)
(* Texts are sequences of one-character strings.  Decoded JSON values are  *)
(* records [t, s, n, items] with t in {"null","str","num","arr","obj"};    *)
(* an object keeps its members in insertion order as <<key, value>> pairs, *)
(* as a Python dict does.                                                  *)
(***************************************************************************)
EXTENDS Integers, Sequences, FiniteSets, TLC

VARIABLES
    \* safe_json_parse applied to one response text
    response, parsed,
    \* extract_text applied to one uploaded file
    file, extracted,
    \* the metadata loop applied to one workbook
    workbook, metadata,
    \* the Streamlit session: widgets, st.session_state, the last script run
    uploaded_cim, uploaded_excel, select, session_state, pending, last, hist

vars == <<response, parsed, file, extracted, workbook, metadata,
          uploaded_cim, uploaded_excel, select, session_state, pending, last, hist>>

parseVars == <<response, parsed>>
extractVars == <<file, extracted>>
metaVars == <<workbook, metadata>>
sessionVars == <<uploaded_cim, uploaded_excel, select, session_state, pending, last, hist>>

-----------------------------------------------------------------------------
(* Sequences of characters *)

\* F applied to the value of x, which is computed once
Bind(x, F(_)) == CHOOSE r \in {F(v) : v \in {x}} : TRUE

Drop(s, k) == IF k >= Len(s) THEN <<>> ELSE SubSeq(s, k + 1, Len(s))

Take(s, k) == IF k >= Len(s) THEN s ELSE SubSeq(s, 1, k)

StartsWith(s, p) == Len(s) >= Len(p) /\ SubSeq(s, 1, Len(p)) = p

EndsWith(s, p) == Len(s) >= Len(p) /\ SubSeq(s, Len(s) - Len(p) + 1, Len(s)) = p

RECURSIVE Flatten(_)
Flatten(ss) == IF ss = <<>> THEN <<>> ELSE Head(ss) \o Flatten(Tail(ss))

Range(s) == {s[i] : i \in 1..Len(s)}

\* str.strip() / JSON whitespace among the characters the inputs use
Whitespace == {" ", "\n", "\t"}

Digits == {"0", "1", "2", "3", "4", "5", "6", "7", "8", "9"}

DigitValue(c) ==
    CASE c = "0" -> 0 [] c = "1" -> 1 [] c = "2" -> 2 [] c = "3" -> 3 [] c = "4" -> 4
      [] c = "5" -> 5 [] c = "6" -> 6 [] c = "7" -> 7 [] c = "8" -> 8 [] c = "9" -> 9

Quote == "\""

\* the backquote character, which a TLA+ string cannot hold, is written "BQ"
Backquote == "BQ"

Fence == <<Backquote, Backquote, Backquote>>

JsonWord == <<"j", "s", "o", "n">>

CandidatesSuffix == <<"_", "C", "a", "n", "d", "i", "d", "a", "t", "e", "s">>

-----------------------------------------------------------------------------
(* Decoded JSON values *)

JNull == [t |-> "null", s |-> <<>>, n |-> 0, items |-> <<>>]
JStr(s) == [t |-> "str", s |-> s, n |-> 0, items |-> <<>>]
JNum(n) == [t |-> "num", s |-> <<>>, n |-> n, items |-> <<>>]
JArr(items) == [t |-> "arr", s |-> <<>>, n |-> 0, items |-> items]
JObj(items) == [t |-> "obj", s |-> <<>>, n |-> 0, items |-> items]

Keys(d) == {d.items[i][1] : i \in 1..Len(d.items)}

HasKey(d, k) == k \in Keys(d)

\* d[k]
Get(d, k) == d.items[CHOOSE i \in 1..Len(d.items) : d.items[i][1] = k][2]

\* d[k] = v: a new key is appended, an existing key keeps its place
DictSet(d, k, v) ==
    IF HasKey(d, k)
    THEN JObj([i \in 1..Len(d.items) |->
                 IF d.items[i][1] = k THEN <<k, v>> ELSE d.items[i]])
    ELSE JObj(Append(d.items, <<k, v>>))

\* del d[k]
DictDel(d, k) == JObj(SelectSeq(d.items, LAMBDA kv : kv[1] # k))

\* Python == on decoded values: dicts compare as mappings, whatever the order
RECURSIVE JEq(_, _)
JEq(a, b) ==
    IF a.t # b.t THEN FALSE
    ELSE IF a.t = "obj"
         THEN /\ Keys(a) = Keys(b)
              /\ \A k \in Keys(a) : JEq(Get(a, k), Get(b, k))
    ELSE IF a.t = "arr"
         THEN /\ Len(a.items) = Len(b.items)
              /\ \A i \in 1..Len(a.items) : JEq(a.items[i], b.items[i])
    ELSE a = b

-----------------------------------------------------------------------------
(* json.loads *)

NoParse == [ok |-> FALSE, val |-> JNull, pos |-> 0]
Parsed(v, p) == [ok |-> TRUE, val |-> v, pos |-> p]

RECURSIVE SkipWs(_, _)
SkipWs(t, i) ==
    IF i <= Len(t) /\ t[i] \in Whitespace THEN SkipWs(t, i + 1) ELSE i

At(t, i) == IF i >= 1 /\ i <= Len(t) THEN t[i] ELSE "EOF"

\* i is just after the opening quote; a raw control character ends the scan
\* with an error (json.loads is strict)
RECURSIVE ScanString(_, _, _)
ScanString(t, i, acc) ==
    IF i > Len(t) THEN NoParse
    ELSE IF t[i] = Quote THEN Parsed(JStr(acc), i + 1)
    ELSE IF t[i] \in {"\n", "\t"} THEN NoParse
    ELSE ScanString(t, i + 1, Append(acc, t[i]))

RECURSIVE ScanDigits(_, _, _)
ScanDigits(t, i, acc) ==
    IF At(t, i) \in Digits THEN ScanDigits(t, i + 1, 10 * acc + DigitValue(t[i]))
    ELSE Parsed(JNum(acc), i)

\* an integer: 0, or a digit 1-9 followed by digits
ScanNumber(t, i) ==
    IF t[i] = "0" THEN Parsed(JNum(0), i + 1) ELSE ScanDigits(t, i, 0)

RECURSIVE ParseValue(_, _)
RECURSIVE ParseMembers(_, _, _)
RECURSIVE ParseElements(_, _, _)

\* i is at the key of the next member
ParseMembers(t, i, acc) ==
    IF At(t, i) # Quote THEN NoParse
    ELSE Bind(ScanString(t, i + 1, <<>>), LAMBDA k :
           IF ~k.ok \/ At(t, SkipWs(t, k.pos)) # ":" THEN NoParse
           ELSE Bind(ParseValue(t, SkipWs(t, SkipWs(t, k.pos) + 1)), LAMBDA v :
                  IF ~v.ok THEN NoParse
                  ELSE Bind(DictSet(acc, k.val.s, v.val), LAMBDA d :
                         Bind(SkipWs(t, v.pos), LAMBDA e :
                           IF At(t, e) = "}" THEN Parsed(d, e + 1)
                           ELSE IF At(t, e) = ","
                                THEN ParseMembers(t, SkipWs(t, e + 1), d)
                           ELSE NoParse))))

\* i is at the next element
ParseElements(t, i, acc) ==
    Bind(ParseValue(t, i), LAMBDA v :
      IF ~v.ok THEN NoParse
      ELSE Bind(SkipWs(t, v.pos), LAMBDA e :
             IF At(t, e) = "]" THEN Parsed(JArr(Append(acc, v.val)), e + 1)
             ELSE IF At(t, e) = ","
                  THEN Bind(Append(acc, v.val), LAMBDA a :
                         ParseElements(t, SkipWs(t, e + 1), a))
             ELSE NoParse))

ParseValue(t, i) ==
    Bind(At(t, i), LAMBDA c :
      Bind(SkipWs(t, i + 1), LAMBDA n :
        IF c = "{"
        THEN IF At(t, n) = "}" THEN Parsed(JObj(<<>>), n + 1)
             ELSE ParseMembers(t, n, JObj(<<>>))
        ELSE IF c = "["
        THEN IF At(t, n) = "]" THEN Parsed(JArr(<<>>), n + 1)
             ELSE ParseElements(t, n, <<>>)
        ELSE IF c = Quote THEN ScanString(t, i + 1, <<>>)
        ELSE IF c \in Digits THEN ScanNumber(t, i)
        ELSE NoParse))

\* one JSON document, surrounded by whitespace at most; anything else raises
\* JSONDecodeError (ok = FALSE)
json_loads(t) ==
    Bind(ParseValue(t, SkipWs(t, 1)), LAMBDA v :
      IF v.ok /\ SkipWs(t, v.pos) = Len(t) + 1
      THEN [ok |-> TRUE, val |-> v.val]
      ELSE [ok |-> FALSE, val |-> JNull])

-----------------------------------------------------------------------------
(* safe_json_parse *)

\* re.sub(r"(3 backquotes)(json)?", "", text)
RECURSIVE re_sub_fence(_)
re_sub_fence(t) ==
    IF t = <<>> THEN <<>>
    ELSE IF StartsWith(t, Fence)
         THEN IF StartsWith(Drop(t, 3), JsonWord)
              THEN re_sub_fence(Drop(t, 7))
              ELSE re_sub_fence(Drop(t, 3))
    ELSE <<Head(t)>> \o re_sub_fence(Tail(t))

RECURSIVE lstrip(_)
lstrip(t) == IF t # <<>> /\ Head(t) \in Whitespace THEN lstrip(Tail(t)) ELSE t

RECURSIVE rstrip(_)
rstrip(t) ==
    IF t # <<>> /\ t[Len(t)] \in Whitespace THEN rstrip(SubSeq(t, 1, Len(t) - 1)) ELSE t

strip(t) == rstrip(lstrip(t))

\* the span from the first "{" to the "}" that balances it, when there is one
RECURSIVE BalancedEnd(_, _, _)
BalancedEnd(t, i, depth) ==
    IF i > Len(t) THEN 0
    ELSE IF t[i] = "{" THEN BalancedEnd(t, i + 1, depth + 1)
    ELSE IF t[i] = "}" THEN (IF depth = 1 THEN i ELSE BalancedEnd(t, i + 1, depth - 1))
    ELSE BalancedEnd(t, i + 1, depth)

FirstBrace(t) == IF "{" \in Range(t) THEN CHOOSE i \in 1..Len(t) :
                        t[i] = "{" /\ \A j \in 1..(i - 1) : t[j] # "{" ELSE 0

\* cleaning with a brace-span extraction after the fence removal
CleanBraceSpan(t) ==
    LET u == re_sub_fence(t)
        b == FirstBrace(u)
        e == IF b = 0 THEN 0 ELSE BalancedEnd(u, b, 0)
    IN  IF e = 0 THEN strip(u) ELSE SubSeq(u, b, e)

\* line 77
Clean(t) == strip(re_sub_fence(t))

\* the value returned (ok = FALSE: None), and what st.error / st.code showed
safe_json_parse(t) ==
    Bind(json_loads(Clean(t)), LAMBDA r :
      IF r.ok
      THEN [ok |-> TRUE, val |-> r.val, error |-> FALSE, code |-> <<>>]
      ELSE [ok |-> FALSE, val |-> JNull, error |-> TRUE, code |-> t])

-----------------------------------------------------------------------------
(* Response texts *)

Str(cs) == <<Quote>> \o cs \o <<Quote>>

\* {}
T_Empty == <<"{", "}">>

\* {"a":12}
T_Num == <<"{">> \o Str(<<"a">>) \o <<":", "1", "2", "}">>

\* { "a" : [1, 2]\n}
T_Spaced ==
    <<"{", " ">> \o Str(<<"a">>) \o <<" ", ":", " ", "[", "1", ",", " ", "2", "]", "\n", "}">>

\* {"a":"(3 backquotes)"}
T_FenceInString == <<"{">> \o Str(<<"a">>) \o <<":">> \o Str(Fence) \o <<"}">>

\* {"a":"x(3 backquotes)jsony"}
T_JsonFenceInString ==
    <<"{">> \o Str(<<"a">>) \o <<":">> \o Str(<<"x">> \o Fence \o JsonWord \o <<"y">>) \o <<"}">>

\* {"E_Candidates":{"a":[1],"b":[2]}}
T_Group ==
    <<"{">> \o Str(<<"E">> \o CandidatesSuffix) \o <<":", "{">>
        \o Str(<<"a">>) \o <<":", "[", "1", "]", ",">>
        \o Str(<<"b">>) \o <<":", "[", "2", "]", "}", "}">>

\* {"a":1,"a":2}
T_Duplicate ==
    <<"{">> \o Str(<<"a">>) \o <<":", "1", ",">> \o Str(<<"a">>) \o <<":", "2", "}">>

\* {"a":{"b":"}"}}
T_BraceInString ==
    <<"{">> \o Str(<<"a">>) \o <<":", "{">> \o Str(<<"b">>) \o <<":">> \o Str(<<"}">>)
        \o <<"}", "}">>

\* {"a":1,}
T_TrailingComma == <<"{">> \o Str(<<"a">>) \o <<":", "1", ",", "}">>

\* {"a" 1}
T_NoColon == <<"{">> \o Str(<<"a">>) \o <<" ", "1", "}">>

\* {"a":1
T_Unclosed == <<"{">> \o Str(<<"a">>) \o <<":", "1">>

\* {"a":01}
T_LeadingZero == <<"{">> \o Str(<<"a">>) \o <<":", "0", "1", "}">>

\* [1]
T_Array == <<"[", "1", "]">>

\* 7
T_Number == <<"7">>

Bodies ==
    { T_Empty, T_Num, T_Spaced, T_FenceInString, T_JsonFenceInString, T_Group,
      T_Duplicate, T_BraceInString, T_TrailingComma, T_NoColon, T_Unclosed,
      T_LeadingZero, T_Array, T_Number, <<>> }

ProseBefore == <<"H", "e", "r", "e", " ", "i", "t", " ", "i", "s", ":", "\n">>

ProseAfter == <<"\n", "D", "o", "n", "e", ".">>

Prefixes == { <<>>, <<"\n", " ">>, ProseBefore }

Suffixes == { <<>>, <<" ", "\n">>, ProseAfter }

FenceOpens == { Fence, Fence \o JsonWord, Fence \o JsonWord \o <<"\n">> }

FenceCloses == { Fence, <<"\n">> \o Fence }

Responses ==
    [pre : Prefixes, open : FenceOpens \cup {<<>>}, body : Bodies,
     close : FenceCloses \cup {<<>>}, post : Suffixes]

\* the text the extraction model returned
ResponseText(r) == r.pre \o r.open \o r.body \o r.close \o r.post

NoResult == [ok |-> FALSE, val |-> JNull, error |-> FALSE, code |-> <<>>]

-----------------------------------------------------------------------------
(* safe_json_parse on one response *)

ParseIdle ==
    /\ response = [pre |-> <<>>, open |-> <<>>, body |-> <<>>, close |-> <<>>, post |-> <<>>]
    /\ parsed = [done |-> FALSE, result |-> NoResult]

InitParse ==
    /\ response \in Responses
    /\ parsed = [done |-> FALSE, result |-> NoResult]

ParseStep ==
    /\ ~parsed.done
    /\ parsed' = [done |-> TRUE, result |-> safe_json_parse(ResponseText(response))]
    /\ UNCHANGED response

-----------------------------------------------------------------------------
(* extract_text *)

\* the largest number of pages of an uploaded PDF
MaxPages == 3

\* page.get_text() of the PyMuPDF page
EmbeddedTexts == { <<>>, <<"a">> }

\* page.extract_text() of the pdfplumber page; None is written <<>> (both are falsy)
PlumberTexts == { <<>>, <<"p">>, <<"q", "\n", "r">> }

\* full_text_annotation.text of the OCR response for the rendered page
OcrTexts == { <<"x">>, <<"y", "\n">> }

Pages == [embedded : EmbeddedTexts, plumber : PlumberTexts, ocr : OcrTexts]

PdfFiles ==
    UNION { [type : {"application/pdf"}, pages : [1..n -> Pages], ocr : {<<>>}] :
              n \in 1..MaxPages }

ImageFiles ==
    [type : {"image/png", "image/jpeg"}, pages : {<<>>}, ocr : OcrTexts \cup {<<>>}]

Files == PdfFiles \cup ImageFiles

NoFile == [type |-> "none", pages |-> <<>>, ocr |-> <<>>]

\* a request to a reader or to the OCR service; page 0 is the raw upload
Call(svc, page) == [svc |-> svc, page |-> page]

\* any(page.get_text() for page in doc) with every page asked
is_digital_all(f) == \A i \in 1..Len(f.pages) : f.pages[i].embedded # <<>>

\* line 28
is_digital(f) == \E i \in 1..Len(f.pages) : f.pages[i].embedded # <<>>

\* any() stops at the first page that yields text
DetectionCalls(f) ==
    LET n == Len(f.pages)
        hits == {i \in 1..n : f.pages[i].embedded # <<>>}
        stop == IF hits = {} THEN n ELSE CHOOSE i \in hits : \A j \in hits : i <= j
    IN  [i \in 1..stop |-> Call("fitz", i)]

\* "\n".join(parts)
RECURSIVE Join(_)
Join(parts) ==
    IF parts = <<>> THEN <<>>
    ELSE IF Len(parts) = 1 THEN parts[1]
    ELSE parts[1] \o <<"\n">> \o Join(Tail(parts))

\* lines 30-31: extract_text() is asked once for the filter and, when the page
\* has text, once more for the value
RECURSIVE PlumberPass(_, _)
PlumberPass(f, i) ==
    IF i > Len(f.pages) THEN [parts |-> <<>>, calls |-> <<>>]
    ELSE LET rest == PlumberPass(f, i + 1)
             t == f.pages[i].plumber
         IN  IF t # <<>>
             THEN [parts |-> <<t>> \o rest.parts,
                   calls |-> <<Call("pdfplumber", i), Call("pdfplumber", i)>> \o rest.calls]
             ELSE [parts |-> rest.parts,
                   calls |-> <<Call("pdfplumber", i)>> \o rest.calls]

\* lines 33-39
RECURSIVE OcrPass(_, _)
OcrPass(f, i) ==
    IF i > Len(f.pages) THEN [text |-> <<>>, calls |-> <<>>]
    ELSE LET rest == OcrPass(f, i + 1)
         IN  [text |-> f.pages[i].ocr \o <<"\n">> \o rest.text,
              calls |-> <<Call("ocr", i)>> \o rest.calls]

\* the text returned and the requests made, in order
extract_text(f) ==
    IF f.type = "application/pdf"
    THEN IF is_digital(f)
         THEN LET p == PlumberPass(f, 1)
              IN  [text |-> Join(p.parts), calls |-> DetectionCalls(f) \o p.calls]
         ELSE LET o == OcrPass(f, 1)
              IN  [text |-> o.text, calls |-> DetectionCalls(f) \o o.calls]
    ELSE [text |-> f.ocr, calls |-> <<Call("ocr", 0)>>]

ExtractIdle ==
    /\ file = NoFile
    /\ extracted = [done |-> FALSE, text |-> <<>>, calls |-> <<>>]

InitExtract ==
    /\ file \in Files
    /\ extracted = [done |-> FALSE, text |-> <<>>, calls |-> <<>>]

ExtractStep ==
    /\ ~extracted.done
    /\ LET r == extract_text(file)
       IN  extracted' = [done |-> TRUE, text |-> r.text, calls |-> r.calls]
    /\ UNCHANGED file

-----------------------------------------------------------------------------
(* The workbook and the metadata loop *)

\* line 186: formulas[:10]
FormulaLimit == 10

\* the largest number of sheets of a workbook
MaxSheets == 2

None == [kind |-> "none", s |-> <<>>, n |-> 0]
Text(s) == [kind |-> "str", s |-> s, n |-> 0]
Number(n) == [kind |-> "num", s |-> <<>>, n |-> n]

\* the formula the template holds at row r, column c
FormulaAt(r, c) == Text(<<"=", "R", ToString(r), "C", ToString(c)>>)

\* values of a cell that holds no formula
PlainValues == { None, Number(5), Text(<<"x", "=", "1">>) }

FillValues == { "formula", "label" }

Shapes == { <<1, 1>>, <<2, 5>>, <<4, 3>> }

\* a sheet filled with formulas, or with labels, but for one cell
SheetPlans ==
    { p \in [shape : Shapes, fill : FillValues, odd : {0, 1},
             oddValue : PlainValues \cup {Text(<<"=", "1", "/", "0">>), Text(<<>>)}] :
        /\ p.odd <= p.shape[1] * p.shape[2]
        /\ (p.odd = 0 => p.oddValue = None) }

MakeSheet(p) ==
    LET rows == p.shape[1]
        cols == p.shape[2]
    IN  [max_row |-> rows, max_col |-> cols,
         cells |-> [rc \in (1..rows) \X (1..cols) |->
                      IF (rc[1] - 1) * cols + rc[2] = p.odd THEN p.oddValue
                      ELSE IF p.fill = "formula" THEN FormulaAt(rc[1], rc[2])
                      ELSE Text(<<"L">>)]]

Sheets == { MakeSheet(p) : p \in SheetPlans }

\* a workbook: its sheets in workbook.sheetnames order (sheet i is named by i)
Workbooks == UNION { [1..n -> Sheets] : n \in 1..MaxSheets }

\* line 181 with the test for the leading "=" left out
IsFormulaAnyString(v) == v.kind = "str" /\ v.s # <<>>

\* line 181: the value is truthy, a string, and starts with "="
IsFormula(v) == v.kind = "str" /\ v.s # <<>> /\ Head(v.s) = "="

\* lines 179-182: sheet.iter_rows() goes row by row, each row left to right
RECURSIVE ScanCells(_, _, _)
ScanCells(sheet, r, c) ==
    IF r > sheet.max_row THEN <<>>
    ELSE IF c > sheet.max_col THEN ScanCells(sheet, r + 1, 1)
    ELSE LET v == sheet.cells[<<r, c>>]
         IN  (IF IsFormula(v) THEN <<[coordinate |-> <<r, c>>, value |-> v.s]>> ELSE <<>>)
               \o ScanCells(sheet, r, c + 1)

\* lines 183-187
SheetMetadata(name, sheet) ==
    [name |-> name, max_row |-> sheet.max_row, max_col |-> sheet.max_col,
     formulas |-> Take(ScanCells(sheet, 1, 1), FormulaLimit)]

\* lines 175-187
ExtractMetadata(wb) == [i \in 1..Len(wb) |-> SheetMetadata(i, wb[i])]

MetaIdle ==
    /\ workbook = <<>>
    /\ metadata = [done |-> FALSE, records |-> <<>>]

InitMeta ==
    /\ workbook \in Workbooks
    /\ metadata = [done |-> FALSE, records |-> <<>>]

MetaStep ==
    /\ ~metadata.done
    /\ metadata' = [done |-> TRUE, records |-> ExtractMetadata(workbook)]
    /\ UNCHANGED workbook

-----------------------------------------------------------------------------
(* The session: uploaded documents, what the extraction model answers *)

\* the largest number of operator actions in a session
MaxActions == 6

Pair(k, v) == Str(k) \o <<":">> \o v

Arr1(d) == <<"[", d, "]">>

Obj2(m1, m2) == <<"{">> \o m1 \o <<",">> \o m2 \o <<"}">>

Fenced(t) == Fence \o JsonWord \o <<"\n">> \o t \o <<"\n">> \o Fence

\* {"a":[1],"b":[2]}
V_ab == Obj2(Pair(<<"a">>, Arr1("1")), Pair(<<"b">>, Arr1("2")))

\* {"c":[4],"d":[5]}
V_cd == Obj2(Pair(<<"c">>, Arr1("4")), Pair(<<"d">>, Arr1("5")))

\* {"E_Candidates":{"a":[1],"b":[2]},"R":[3]}, fenced
R_OneGroup ==
    Fenced(Obj2(Pair(<<"E">> \o CandidatesSuffix, V_ab), Pair(<<"R">>, Arr1("3"))))

\* {"E_Candidates":{"a":[1],"b":[2]},"F_Candidates":{"c":[4],"d":[5]}}
R_TwoGroups ==
    Obj2(Pair(<<"E">> \o CandidatesSuffix, V_ab), Pair(<<"F">> \o CandidatesSuffix, V_cd))

\* {"E_Candidates":{"a":[1],"b":[2]},"F_Candidates":{}}, fenced
R_EmptyGroup ==
    Fenced(Obj2(Pair(<<"E">> \o CandidatesSuffix, V_ab),
                Pair(<<"F">> \o CandidatesSuffix, <<"{", "}">>)))

\* {"R":[3],"G_Candidates":[1]}: the suffix on a key whose value is no mapping
R_Plain == Obj2(Pair(<<"R">>, Arr1("3")), Pair(<<"G">> \o CandidatesSuffix, Arr1("1")))

\* prose, then {"R":[3]}, fenced
R_Prose == ProseBefore \o Fenced(<<"{">> \o Pair(<<"R">>, Arr1("3")) \o <<"}">>)

\* {"R":[3 , fenced: the answer was cut short
R_Truncated == Fenced(<<"{">> \o Pair(<<"R">>, <<"[", "3">>))

\* [1]: valid JSON that is no object
R_Array == Arr1("1")

Docs == { "one_group", "two_groups", "empty_group", "plain", "prose", "truncated", "array" }

\* the upload behind each document
DocFile(d) ==
    IF d \in {"one_group", "prose"}
    THEN [type |-> "image/png", pages |-> <<>>, ocr |-> <<"x">>]
    ELSE [type |-> "application/pdf", ocr |-> <<>>,
          pages |-> <<[embedded |-> <<>>, plumber |-> <<>>, ocr |-> <<"x">>],
                      [embedded |-> <<"a">>, plumber |-> <<"p">>, ocr |-> <<"y", "\n">>]>>]

\* lines 102-107: what the extraction model (temperature 0) answers for the
\* document's prompt
DocResponse(d) ==
    CASE d = "one_group" -> R_OneGroup
      [] d = "two_groups" -> R_TwoGroups
      [] d = "empty_group" -> R_EmptyGroup
      [] d = "plain" -> R_Plain
      [] d = "prose" -> R_Prose
      [] d = "truncated" -> R_Truncated
      [] d = "array" -> R_Array

\* the uploaded .xlsx files; "corrupt" is one openpyxl cannot open
Excels == { "template", "small", "corrupt" }

ExcelValid(x) == x # "corrupt"

\* line 173: openpyxl.load_workbook of a file it can open
load_workbook(x) ==
    IF x = "template"
    THEN << MakeSheet([shape |-> <<4, 3>>, fill |-> "formula", odd |-> 1,
                       oddValue |-> Text(<<"x", "=", "1">>)]),
            MakeSheet([shape |-> <<1, 1>>, fill |-> "label", odd |-> 0, oddValue |-> None]) >>
    ELSE << MakeSheet([shape |-> <<1, 1>>, fill |-> "formula", odd |-> 0, oddValue |-> None]) >>

\* what the mapping model may answer
MappingSuggestions == { <<>>, <<"B", "2">> }

-----------------------------------------------------------------------------
(* One run of the script *)

\* lines 118-122
CandidateMetrics(cim_data) ==
    LET groups == SelectSeq(cim_data.items,
                            LAMBDA kv : EndsWith(kv[1], CandidatesSuffix) /\ kv[2].t = "obj")
    IN  [i \in 1..Len(groups) |->
           [metric |-> SubSeq(groups[i][1], 1, Len(groups[i][1]) - Len(CandidatesSuffix)),
            options |-> [j \in 1..Len(groups[i][2].items) |-> groups[i][2].items[j][1]]]]

\* the value of the widget keyed select_<metric>; index=0 is its default
Selectbox(sel, metric, options) ==
    IF \E i \in 1..Len(sel) : sel[i][1] = metric /\ sel[i][2] \in Range(options)
    THEN sel[CHOOSE i \in 1..Len(sel) : sel[i][1] = metric][2]
    ELSE options[1]

\* lines 138-149: user_selections, one entry per group that has options
RECURSIVE UserSelections(_, _)
UserSelections(cm, sel) ==
    IF cm = <<>> THEN <<>>
    ELSE IF cm[1].options # <<>>
         THEN <<<<cm[1].metric, Selectbox(sel, cm[1].metric, cm[1].options)>>>>
                \o UserSelections(Tail(cm), sel)
    ELSE UserSelections(Tail(cm), sel)

\* all_selected with the else branch of line 148 left out
AllSelectedAlways(cm) == TRUE

\* lines 136-149
AllSelected(cm) == \A i \in 1..Len(cm) : cm[i].options # <<>>

\* lines 153-156
RECURSIVE ApplySelections(_, _)
ApplySelections(cim_data, us) ==
    IF us = <<>> THEN cim_data
    ELSE LET key == us[1][1] \o CandidatesSuffix
             chosen == Get(Get(cim_data, key), us[1][2])
         IN  ApplySelections(DictDel(DictSet(cim_data, us[1][1], chosen), key), Tail(us))

\* the workbook with the suggestion written into its first cell
WorkbookWithWrite(wb, cim_data, gpt_mapping) ==
    [wb EXCEPT ![1].cells[<<1, 1>>] = Text(<<"w">> \o gpt_mapping)]

\* lines 189-206: the messages are built, the model is asked and its answer is
\* shown; no cell is assigned
WorkbookAfterMapping(wb, cim_data, gpt_mapping) == wb

NoMapping ==
    [entered |-> FALSE, loaded |-> FALSE, error |-> FALSE, workbook |-> <<>>,
     metadata |-> <<>>, cim_data |-> JNull, calls |-> 0, gpt_mapping |-> <<>>,
     download |-> FALSE, saved |-> <<>>]

\* lines 169-215
MappingStage(excel, cim_data, gpt_mapping) ==
    IF ~ExcelValid(excel)
    THEN [NoMapping EXCEPT !.entered = TRUE, !.error = TRUE]
    ELSE LET wb == load_workbook(excel)
         IN  [entered |-> TRUE, loaded |-> TRUE, error |-> FALSE, workbook |-> wb,
              metadata |-> ExtractMetadata(wb), cim_data |-> cim_data, calls |-> 1,
              gpt_mapping |-> gpt_mapping, download |-> TRUE,
              saved |-> WorkbookAfterMapping(wb, cim_data, gpt_mapping)]

NoRun ==
    [ran |-> FALSE, doc |-> "none", excel |-> "none", clicked |-> FALSE, stop |-> "none",
     extractions |-> 0, raw_text |-> <<>>, model_calls |-> 0, response_text |-> <<>>,
     decoded |-> FALSE, failure_shown |-> FALSE,
     error |-> FALSE, code |-> <<>>, cim_data |-> JNull, candidate_metrics |-> <<>>,
     detected |-> FALSE, confirm_offered |-> FALSE, applied |-> FALSE,
     user_selections |-> <<>>, edited |-> JNull, warning |-> FALSE,
     selections_before |-> FALSE, mapping |-> NoMapping]

\* line 168
Gate(selections_made, cm) == selections_made \/ cm = <<>>

\* line 110 with the check left out: a failed decode goes on as an empty result
DecodeFailureStopsNever(p) == FALSE

\* line 110: cim_data is None
DecodeFailureStops(p) == ~p.ok

\* the handler without its last line
rerun_omitted == FALSE

\* line 161: st.rerun() ends the run and starts the script again
rerun_after_confirm == TRUE

\* lines 131-215: the selection interface, the gate and the mapping stage
Reconcile(detected, excel, ss1, us, clicked, gpt_mapping) ==
    IF detected.candidate_metrics # <<>> /\ detected.confirm_offered /\ clicked
    THEN \* lines 152-161
         [last |-> [detected EXCEPT !.stop = "rerun", !.applied = TRUE,
                                    !.edited = ApplySelections(detected.cim_data, us)],
          ss |-> [init |-> TRUE, selections_made |-> TRUE, user_selections |-> us],
          select |-> us, rerun |-> rerun_after_confirm]
    ELSE IF detected.candidate_metrics # <<>> /\ ~ss1.selections_made
    THEN \* lines 163-165
         [last |-> [detected EXCEPT !.stop = "gate", !.warning = TRUE],
          ss |-> ss1, select |-> us, rerun |-> FALSE]
    ELSE IF Gate(ss1.selections_made, detected.candidate_metrics)
    THEN [last |-> [detected EXCEPT
                      !.stop = "end",
                      !.mapping = MappingStage(excel, detected.cim_data, gpt_mapping)],
          ss |-> ss1, select |-> us, rerun |-> FALSE]
    ELSE [last |-> [detected EXCEPT !.stop = "end"], ss |-> ss1, select |-> us,
          rerun |-> FALSE]

\* lines 110-149: the check of the decoded result, candidate detection, the
\* session-state defaults and the selectboxes
AfterDecode(called, excel, ss, sel, clicked, gpt_mapping, p) ==
    IF DecodeFailureStops(p)
    THEN [last |-> [called EXCEPT !.stop = "parse_fail", !.failure_shown = TRUE],
          ss |-> ss, select |-> <<>>, rerun |-> FALSE]
    ELSE IF p.val.t # "obj"
    THEN \* line 119: cim_data.items() raises, the run ends with the exception
         [last |-> [called EXCEPT !.stop = "exception"], ss |-> ss, select |-> <<>>,
          rerun |-> FALSE]
    ELSE Bind(CandidateMetrics(p.val), LAMBDA cm :
           Bind(UserSelections(cm, sel), LAMBDA us :
             Reconcile([called EXCEPT !.candidate_metrics = cm, !.detected = TRUE,
                                      !.confirm_offered = (cm # <<>> /\ AllSelected(cm)),
                                      !.user_selections = us],
                       excel,
                       IF ss.init THEN ss
                       ELSE [init |-> TRUE, selections_made |-> FALSE,
                             user_selections |-> <<>>],
                       us, clicked, gpt_mapping)))

\* lines 85-215, one run of the script: text extraction and the extraction
\* model's answer (lines 88-108), then the rest.  Yields the record of the run,
\* the session state and widget state it leaves, and whether st.rerun() was
\* called.
RunScript(cim, excel, ss, sel, clicked, gpt_mapping) ==
    IF cim = "none" \/ excel = "none"
    THEN [last |-> [NoRun EXCEPT !.ran = TRUE, !.doc = cim, !.excel = excel,
                                 !.clicked = clicked, !.stop = "no_files",
                                 !.selections_before = ss.selections_made],
          ss |-> ss, select |-> <<>>, rerun |-> FALSE]
    ELSE Bind(safe_json_parse(DocResponse(cim)), LAMBDA p :
           AfterDecode([NoRun EXCEPT !.ran = TRUE, !.doc = cim, !.excel = excel,
                                     !.clicked = clicked,
                                     !.selections_before = ss.selections_made,
                                     !.extractions = 1,
                                     !.raw_text = extract_text(DocFile(cim)).text,
                                     !.model_calls = 1,
                                     !.response_text = DocResponse(cim),
                                     !.decoded = p.ok, !.error = p.error,
                                     !.code = p.code, !.cim_data = p.val],
                       excel, ss, sel, clicked, gpt_mapping, p))

-----------------------------------------------------------------------------
(* The session *)

SessionIdle ==
    /\ uploaded_cim = "none"
    /\ uploaded_excel = "none"
    /\ select = <<>>
    /\ session_state = [init |-> FALSE, selections_made |-> FALSE, user_selections |-> <<>>]
    /\ pending = [run |-> FALSE, clicked |-> FALSE]
    /\ last = NoRun
    /\ hist = [actions |-> 0, action |-> "open", runs |-> 0, extractions |-> 0,
               model_calls |-> 0, confirmed |-> {}]

\* the page is opened: the script runs once with nothing uploaded
InitSession ==
    /\ uploaded_cim = "none"
    /\ uploaded_excel = "none"
    /\ select = <<>>
    /\ session_state = [init |-> FALSE, selections_made |-> FALSE, user_selections |-> <<>>]
    /\ pending = [run |-> TRUE, clicked |-> FALSE]
    /\ last = NoRun
    /\ hist = [actions |-> 0, action |-> "open", runs |-> 0, extractions |-> 0,
               model_calls |-> 0, confirmed |-> {}]

Act(kind) ==
    /\ ~pending.run
    /\ hist.actions < MaxActions
    /\ hist' = [hist EXCEPT !.actions = @ + 1, !.action = kind, !.runs = 0,
                            !.extractions = 0, !.model_calls = 0]

\* line 20: a file is put in the uploader, replaced or removed
UploadCim ==
    \E d \in Docs \cup {"none"} :
        /\ d # uploaded_cim
        /\ Act("upload")
        /\ uploaded_cim' = d
        /\ pending' = [run |-> TRUE, clicked |-> FALSE]
        /\ UNCHANGED <<uploaded_excel, select, session_state, last>>

\* line 21
UploadExcel ==
    \E x \in Excels \cup {"none"} :
        /\ x # uploaded_excel
        /\ Act("upload")
        /\ uploaded_excel' = x
        /\ pending' = [run |-> TRUE, clicked |-> FALSE]
        /\ UNCHANGED <<uploaded_cim, select, session_state, last>>

\* lines 141-146: the operator picks another option in a selectbox on the page
ChangeSelect ==
    \E i \in 1..Len(last.candidate_metrics) :
      \E o \in Range(last.candidate_metrics[i].options) :
        /\ \E k \in 1..Len(select) :
             /\ select[k][1] = last.candidate_metrics[i].metric
             /\ select[k][2] # o
             /\ select' = [select EXCEPT ![k] = <<select[k][1], o>>]
        /\ Act("select")
        /\ pending' = [run |-> TRUE, clicked |-> FALSE]
        /\ UNCHANGED <<uploaded_cim, uploaded_excel, session_state, last>>

\* line 151: the button is on the page and the operator clicks it
ClickConfirm ==
    /\ last.confirm_offered
    /\ Act("confirm")
    /\ pending' = [run |-> TRUE, clicked |-> TRUE]
    /\ UNCHANGED <<uploaded_cim, uploaded_excel, select, session_state, last>>

\* lines 85-215: the script runs to its end, to st.stop() or to st.rerun()
ScriptRun ==
    /\ pending.run
    /\ \E g \in MappingSuggestions :
         \E r \in {RunScript(uploaded_cim, uploaded_excel, session_state, select,
                             pending.clicked, g)} :
             /\ last' = r.last
             /\ session_state' = r.ss
             /\ select' = r.select
             /\ pending' = [run |-> r.rerun, clicked |-> FALSE]
             /\ hist' = [hist EXCEPT
                           !.runs = @ + 1,
                           !.extractions = @ + r.last.extractions,
                           !.model_calls = @ + r.last.model_calls,
                           !.confirmed = IF r.last.applied THEN @ \cup {uploaded_cim}
                                         ELSE @]
    /\ UNCHANGED <<uploaded_cim, uploaded_excel>>

-----------------------------------------------------------------------------
(* Specifications *)

Init == InitSession /\ ParseIdle /\ ExtractIdle /\ MetaIdle

Next ==
    \/ UploadCim /\ UNCHANGED <<parseVars, extractVars, metaVars>>
    \/ UploadExcel /\ UNCHANGED <<parseVars, extractVars, metaVars>>
    \/ ChangeSelect /\ UNCHANGED <<parseVars, extractVars, metaVars>>
    \/ ClickConfirm /\ UNCHANGED <<parseVars, extractVars, metaVars>>
    \/ ScriptRun /\ UNCHANGED <<parseVars, extractVars, metaVars>>

\* the session under every sequence of operator actions
Spec == Init /\ [][Next]_vars

InitP == InitParse /\ SessionIdle /\ ExtractIdle /\ MetaIdle

NextP == ParseStep /\ UNCHANGED <<sessionVars, extractVars, metaVars>>

\* safe_json_parse on every response of Responses
SpecParse == InitP /\ [][NextP]_vars

InitX == InitExtract /\ SessionIdle /\ ParseIdle /\ MetaIdle

NextX == ExtractStep /\ UNCHANGED <<sessionVars, parseVars, metaVars>>

\* extract_text on every file of Files
SpecExtract == InitX /\ [][NextX]_vars

InitM == InitMeta /\ SessionIdle /\ ParseIdle /\ ExtractIdle

NextM == MetaStep /\ UNCHANGED <<sessionVars, parseVars, extractVars>>

\* the metadata loop on every workbook of Workbooks
SpecMeta == InitM /\ [][NextM]_vars

-----------------------------------------------------------------------------
(* Properties of the session (Spec) *)

BothUploaded == uploaded_cim # "none" /\ uploaded_excel # "none"

\* the last run found a candidate group with no variant
EmptyGroupFound ==
    /\ last.detected
    /\ \E i \in 1..Len(last.candidate_metrics) : last.candidate_metrics[i].options = <<>>

\* C1: whenever the mapping stage is executed for a document whose decoded
\* result has a candidate group, the operator has confirmed the selections of
\* that document (a confirmation of another document does not count).
C1_GateNeedsConfirmation ==
    (last.mapping.entered /\ last.candidate_metrics # <<>>)
        => last.doc \in hist.confirmed

\* C2: whenever the mapping messages are built for a document whose decoded
\* result had a group X_Candidates, the cim_data in them has no X_Candidates
\* entry and has a plain entry X holding the values of the confirmed variant.
C2_MappingSeesResolvedData ==
    last.mapping.calls = 1 =>
        \A i \in 1..Len(last.candidate_metrics) :
            LET X == last.candidate_metrics[i].metric
                data == last.mapping.cim_data
            IN  /\ ~HasKey(data, X \o CandidatesSuffix)
                /\ HasKey(data, X)
                /\ \E k \in 1..Len(session_state.user_selections) :
                     /\ session_state.user_selections[k][1] = X
                     /\ JEq(Get(data, X),
                            Get(Get(last.cim_data, X \o CandidatesSuffix),
                                session_state.user_selections[k][2]))

\* C3: the workbook saved for download has the sheets of the workbook that was
\* loaded and, in every sheet, every cell with the value it was loaded with,
\* whatever the extracted data and the mapping suggestion.
C3_WorkbookUnchanged ==
    last.mapping.download =>
        LET loaded == load_workbook(last.excel)
            saved == last.mapping.saved
        IN  /\ Len(saved) = Len(loaded)
            /\ \A i \in 1..Len(loaded) :
                 /\ DOMAIN saved[i].cells = DOMAIN loaded[i].cells
                 /\ \A rc \in DOMAIN loaded[i].cells :
                      saved[i].cells[rc] = loaded[i].cells[rc]

\* a download was offered for a template with formula cells, after a non-empty
\* suggestion, for a document with extracted data
C3_Witness ==
    /\ last.mapping.download
    /\ last.excel = "template"
    /\ last.mapping.gpt_mapping # <<>>
    /\ last.mapping.calls = 1
    /\ \E rc \in DOMAIN last.mapping.saved[1].cells :
         last.mapping.saved[1].cells[rc] = FormulaAt(rc[1], rc[2])

\* C4: when the extraction model's answer does not decode after cleaning,
\* safe_json_parse yields None after an error and the raw answer are shown, the
\* run stops before candidate detection, and nothing of the mapping stage
\* (workbook load, mapping-model call, download) happens in that run.
C4_DecodeFailureStopsRun ==
    (last.model_calls = 1 /\ ~json_loads(strip(re_sub_fence(last.response_text))).ok)
        => /\ ~last.decoded
           /\ last.error
           /\ last.code = last.response_text
           /\ last.failure_shown
           /\ last.stop = "parse_fail"
           /\ ~last.detected
           /\ last.candidate_metrics = <<>>
           /\ last.mapping = NoMapping

\* a run stopped on an answer that does not decode and whose raw text differs
\* from its cleaned text
C4_Witness ==
    /\ last.stop = "parse_fail"
    /\ last.code = last.response_text
    /\ last.code # strip(re_sub_fence(last.response_text))

\* C9 as stated: once the interface is responsive again after an operator
\* action on a session with both files uploaded, that action has caused exactly
\* one run, one text extraction and one extraction-model call.
C9_OneRunPerAction ==
    (~pending.run /\ hist.actions > 0 /\ BothUploaded)
        => hist.runs = 1 /\ hist.extractions = 1 /\ hist.model_calls = 1

\* C9 amended: no run extracts or calls the extraction model more than once; an
\* upload or a selectbox change causes exactly one run (one extraction and one
\* extraction-model call when both files are uploaded, none otherwise); a
\* confirm click causes exactly two runs, the second started by st.rerun(),
\* and so two extractions and two extraction-model calls.
C9_RunsPerAction ==
    /\ last.extractions <= 1 /\ last.model_calls <= 1
    /\ (~pending.run /\ hist.actions > 0) =>
         IF hist.action = "confirm"
         THEN /\ BothUploaded
              /\ hist.runs = 2 /\ hist.extractions = 2 /\ hist.model_calls = 2
         ELSE /\ hist.runs = 1
              /\ hist.extractions = (IF BothUploaded THEN 1 ELSE 0)
              /\ hist.model_calls = hist.extractions

\* the interface is responsive again after a confirm click and its two runs
C9_Witness ==
    /\ ~pending.run
    /\ hist.action = "confirm"
    /\ hist.runs = 2
    /\ hist.extractions = 2

\* C10: a run whose decoded result has a candidate group with no variant does
\* not offer the confirm button and applies no selection; and as long as no
\* confirmation has been made in the session, every such run stops at the gate
\* with the warning and does not enter the mapping stage, whatever the operator
\* has done and whatever is selected for the other groups.
C10_EmptyGroupBlocks ==
    EmptyGroupFound =>
        /\ ~last.confirm_offered
        /\ ~last.applied
        /\ session_state.selections_made = last.selections_before
        /\ ~(ENABLED ClickConfirm)
        /\ hist.confirmed = {} =>
             /\ last.stop = "gate"
             /\ last.warning
             /\ last.mapping = NoMapping

\* the operator changed the selection of the other group of such a document,
\* and the run still stopped at the gate
C10_Witness ==
    /\ EmptyGroupFound
    /\ hist.action = "select"
    /\ ~pending.run
    /\ last.user_selections # <<>>
    /\ last.stop = "gate"

-----------------------------------------------------------------------------
(* Properties of safe_json_parse (SpecParse) *)

\* the body is the text of a JSON object
ValidObject(body) == json_loads(body).ok /\ json_loads(body).val.t = "obj"

IsProse(t) == \E i \in 1..Len(t) : t[i] \notin Whitespace

\* C5: a valid JSON object text wrapped in code fences decodes to the structure
\* the text decodes to by itself.
C5_FenceRoundTrip ==
    (/\ parsed.done
     /\ ValidObject(response.body)
     /\ response.pre = <<>> /\ response.post = <<>>
     /\ response.open \in FenceOpens /\ response.close \in FenceCloses)
        => /\ parsed.result.ok
           /\ JEq(parsed.result.val, json_loads(response.body).val)

\* C6 as stated: a response made of a valid JSON object (with no fence marker
\* inside it), with or without prose and fences around it, decodes to that
\* object.
C6_ObjectSpanDecoded ==
    (/\ parsed.done
     /\ ValidObject(response.body)
     /\ Backquote \notin Range(response.body))
        => /\ parsed.result.ok
           /\ JEq(parsed.result.val, json_loads(response.body).val)

\* C6 amended: after the fence markers are removed the whole text, trimmed of
\* whitespace, is decoded; no object span is looked for.  So a valid JSON object
\* with prose before or after it is not decoded: the result is None and the raw
\* response is shown.  A JSON text with only fences and whitespace around it
\* decodes to its value.
C6_WholeTextDecoded ==
    parsed.done =>
        /\ (ValidObject(response.body) /\ (IsProse(response.pre) \/ IsProse(response.post)))
             => /\ ~parsed.result.ok
                /\ parsed.result.error
                /\ parsed.result.code = ResponseText(response)
        /\ (/\ json_loads(response.body).ok
            /\ Backquote \notin Range(response.body)
            /\ ~IsProse(response.pre) /\ ~IsProse(response.post))
             => /\ parsed.result.ok
                /\ JEq(parsed.result.val, json_loads(response.body).val)

\* a fenced valid object after a line of prose was parsed, and the result is None
C6_Witness ==
    /\ parsed.done
    /\ ValidObject(response.body)
    /\ response.pre = ProseBefore
    /\ response.open \in FenceOpens
    /\ ~parsed.result.ok

-----------------------------------------------------------------------------
(* Properties of extract_text (SpecExtract) *)

CallsTo(svc) == SelectSeq(extracted.calls, LAMBDA c : c.svc = svc)

NoEmbeddedText == \A i \in 1..Len(file.pages) : file.pages[i].embedded = <<>>

\* the routing of C7, with the text the OCR path is to yield
C7_Routing(ocrText) ==
    extracted.done =>
        /\ (file.type = "application/pdf" /\ NoEmbeddedText)
             => /\ CallsTo("pdfplumber") = <<>>
                /\ CallsTo("ocr") = [i \in 1..Len(file.pages) |-> Call("ocr", i)]
                /\ extracted.text = ocrText
        /\ (file.type = "application/pdf" /\ ~NoEmbeddedText)
             => /\ CallsTo("ocr") = <<>>
                /\ extracted.text =
                     Join(SelectSeq([i \in 1..Len(file.pages) |-> file.pages[i].plumber],
                                    LAMBDA t : t # <<>>))
        /\ file.type # "application/pdf"
             => /\ CallsTo("ocr") = <<Call("ocr", 0)>>
                /\ CallsTo("pdfplumber") = <<>>

\* C7 as stated: on the OCR path the result is the recognized page texts
\* concatenated in page order.
C7_OcrTextsConcatenated ==
    C7_Routing(Flatten([i \in 1..Len(file.pages) |-> file.pages[i].ocr]))

\* C7 amended: a PDF none of whose pages yields embedded text never reaches the
\* text-layer reader, and each page goes to the OCR service once, in page order,
\* the result being the recognized texts in that order, each followed by a
\* newline; a PDF with embedded text on some page never reaches the OCR
\* service, and the result is the non-empty page texts of the text-layer reader
\* joined by newlines; any other upload makes one OCR request on the raw bytes.
C7_OcrTextsNewlineTerminated ==
    C7_Routing(Flatten([i \in 1..Len(file.pages) |-> file.pages[i].ocr \o <<"\n">>]))

\* a scanned PDF of several pages went through the OCR path
C7_Witness ==
    /\ extracted.done
    /\ file.type = "application/pdf"
    /\ Len(file.pages) >= 2
    /\ NoEmbeddedText
    /\ Len(CallsTo("ocr")) = Len(file.pages)

-----------------------------------------------------------------------------
(* Properties of the metadata loop (SpecMeta) *)

\* the value is a string beginning with "="
BeginsWithEquals(v) == v.kind = "str" /\ Len(v.s) >= 1 /\ v.s[1] = "="

FormulaCells(sheet) == {rc \in DOMAIN sheet.cells : BeginsWithEquals(sheet.cells[rc])}

RowMajorBefore(a, b) == a[1] < b[1] \/ (a[1] = b[1] /\ a[2] < b[2])

\* fs lists formula cells of the sheet only, each with its text, in scan order
ListsFormulaCells(fs, sheet) ==
    /\ \A k \in 1..Len(fs) :
         /\ fs[k].coordinate \in FormulaCells(sheet)
         /\ fs[k].value = sheet.cells[fs[k].coordinate].s
    /\ \A k, l \in 1..Len(fs) : k < l => RowMajorBefore(fs[k].coordinate, fs[l].coordinate)

Listed(fs) == {fs[k].coordinate : k \in 1..Len(fs)}

OneRecordPerSheet ==
    /\ Len(metadata.records) = Len(workbook)
    /\ \A i \in 1..Len(workbook) :
         /\ metadata.records[i].name = i
         /\ metadata.records[i].max_row = workbook[i].max_row
         /\ metadata.records[i].max_col = workbook[i].max_col

\* C8 as stated: one record per sheet, whose formula list holds every formula
\* cell of the sheet, and no other cell, in row-major order.
C8_EveryFormulaListed ==
    metadata.done =>
        /\ OneRecordPerSheet
        /\ \A i \in 1..Len(workbook) :
             /\ ListsFormulaCells(metadata.records[i].formulas, workbook[i])
             /\ Listed(metadata.records[i].formulas) = FormulaCells(workbook[i])

\* C8 amended: one record per sheet, whose formula list holds, in row-major
\* order, the first 10 formula cells of the sheet (all of them when the sheet
\* has at most 10), and no other cell.
C8_FirstTenFormulasListed ==
    metadata.done =>
        /\ OneRecordPerSheet
        /\ \A i \in 1..Len(workbook) :
             LET fs == metadata.records[i].formulas
                 all == FormulaCells(workbook[i])
             IN  /\ ListsFormulaCells(fs, workbook[i])
                 /\ Len(fs) = (IF Cardinality(all) <= FormulaLimit
                               THEN Cardinality(all) ELSE FormulaLimit)
                 /\ \A rc \in all \ Listed(fs) :
                      \A k \in 1..Len(fs) : RowMajorBefore(fs[k].coordinate, rc)

\* a sheet with more than 10 formula cells and a cell that holds none
C8_Witness ==
    /\ metadata.done
    /\ \E i \in 1..Len(workbook) :
         /\ Cardinality(FormulaCells(workbook[i])) > FormulaLimit
         /\ Len(metadata.records[i].formulas) = FormulaLimit
         /\ FormulaCells(workbook[i]) # DOMAIN workbook[i].cells

====
